---- MODULE Spec2Model ----
(***************************************************************************)
(* Model of the Shopify connection back end:                               *)
(*   backend/functions/auth.py      OAuth initiator                        *)
(*   backend/functions/callback.py  OAuth callback handler                 *)
(*   backend/functions/gdpr.py      GDPR webhook router                    *)
(*   backend/functions/proxy.py     storefront proxy relay                 *)
(*   utils/shopify-client.py        ShopifyClient utility                  *)
(*                                                                         *)
(* Strings are sequences of characters (one-character TLA+ strings), so    *)
(* that prefix tests, sorting, joining and pattern matching are computed   *)
(* as the code computes them.  A digest is a string too: the sequence      *)
(* <<"hex[">> key "|" message <<"]">> stands for the hex text of           *)
(* HMAC-SHA256(key, message), an injective (collision-free) rendering.     *)
(***************************************************************************)
EXTENDS Integers, Sequences, FiniteSets, TLC

VARIABLES
    store,      \* the SSM parameter store: a function from names to values
    inv,        \* inv[i]: the invocation running in Lambda environment i
    instances,  \* the Lambda environments that accept invocations
    client,     \* one ShopifyClient object of the custom tooling
    call        \* the direct call of a signature verifier under way, with its result

vars == <<store, inv, instances, client, call>>

----------------------------------------------------------------------------
(* Bounds of the model *)

\* describe_parameters returns at most PageSize names per page
PageSize == 2
\* longest label (the part before .myshopify.com) tried on the initiator
MaxLabel == 2

----------------------------------------------------------------------------
(* Strings *)

\* the characters the model uses, in ASCII order
Alphabet ==
    << "\n", "&", "-", ".", "/", "0", "1", "2", "9", "=", "A", "Z", "_",
       "a", "b", "c", "d", "e", "f", "g", "h", "i", "j", "k", "l", "m", "n",
       "o", "p", "q", "r", "s", "t", "u", "v", "w", "x", "y", "z" >>

\* a character outside ASCII (e-acute), as one element
NonAscii == "U+00E9"

Ord(c) == CHOOSE k \in 1..Len(Alphabet) : Alphabet[k] = c

\* Python's None, kept distinct from every string
None == << "<None>" >>

\* str(v) as an f-string renders it
Str(v) == IF v = None THEN << "N", "o", "n", "e" >> ELSE v

\* Python truthiness of an optional string
Falsy(v) == v = None \/ v = << >>

\* str.startswith / the store's BeginsWith filter
BeginsWith(s, p) == Len(p) <= Len(s) /\ SubSeq(s, 1, Len(p)) = p

\* byte-wise lexicographic order on strings, as sorted() compares keys
RECURSIVE LexLess(_, _)
LexLess(a, b) ==
    IF b = << >> THEN FALSE
    ELSE IF a = << >> THEN TRUE
    ELSE IF Ord(Head(a)) # Ord(Head(b)) THEN Ord(Head(a)) < Ord(Head(b))
    ELSE LexLess(Tail(a), Tail(b))

\* str.isascii on the strings compare_digest receives
IsAscii(s) == \A k \in 1..Len(s) : s[k] # NonAscii

----------------------------------------------------------------------------
(* Literals of the source *)

K_code == << "c", "o", "d", "e" >>
K_hmac == << "h", "m", "a", "c" >>
K_shop == << "s", "h", "o", "p" >>
K_signature == << "s", "i", "g", "n", "a", "t", "u", "r", "e" >>
K_timestamp == << "t", "i", "m", "e", "s", "t", "a", "m", "p" >>

\* PARAMETER_STORE_PREFIX, at its default
PARAMETER_STORE_PREFIX ==
    << "/", "s", "h", "o", "p", "i", "f", "y", "/", "c", "l", "i", "e", "n", "t", "s" >>

F_access_token == << "a", "c", "c", "e", "s", "s", "-", "t", "o", "k", "e", "n" >>
F_scopes == << "s", "c", "o", "p", "e", "s" >>
F_installed_at == << "i", "n", "s", "t", "a", "l", "l", "e", "d", "-", "a", "t" >>

\* SHOPIFY_API_SECRET of the deployment, and a secret that is not it
SHOPIFY_API_SECRET == << "s", "e", "c" >>
OtherSecret == << "b", "a", "d" >>

\* f'{prefix}/{shop}/<field>'
ParamName(shop, field) ==
    PARAMETER_STORE_PREFIX \o << "/" >> \o Str(shop) \o << "/" >> \o field

\* ShopNamespace without the closing slash of the filter value
ShopNamespace_NoSlash(shop) == PARAMETER_STORE_PREFIX \o << "/" >> \o Str(shop)

\* f'{prefix}/{shop}/'
ShopNamespace(shop) == PARAMETER_STORE_PREFIX \o << "/" >> \o Str(shop) \o << "/" >>

\* the names the BeginsWith filter of delete_shop_data selects, line 48
ShopParameters(s, shop) == {n \in DOMAIN s : BeginsWith(n, ShopNamespace(shop))}

----------------------------------------------------------------------------
(* Signature verification *)

\* hmac.new(key, msg, sha256).hexdigest()
HexDigest(key, msg) == << "hex[" >> \o key \o << "|" >> \o msg \o << "]" >>

\* base64.b64encode(hmac.new(key, msg, sha256).digest()).decode()
B64Digest(key, msg) == << "b64[" >> \o key \o << "|" >> \o msg \o << "]" >>

\* hmac.compare_digest on two str: TypeError unless both are ASCII
compare_digest(a, b) ==
    IF ~(IsAscii(a) /\ IsAscii(b)) THEN "TypeError"
    ELSE IF a = b THEN "True" ELSE "False"

\* event.get('queryStringParameters') or {} when the request has no query:
\* the handlers turn None into the empty dict
NoQuery == << >>

\* dict.get(key) on a parameter map
Get(d, k) == IF k \in DOMAIN d THEN d[k] ELSE None

\* SortedKeys with the greatest key first
RECURSIVE SortedKeys_Descending(_)
SortedKeys_Descending(ks) ==
    IF ks = {} THEN << >>
    ELSE LET m == CHOOSE x \in ks : \A y \in ks \ {x} : LexLess(y, x)
         IN  << m >> \o SortedKeys_Descending(ks \ {m})

\* sorted(params.items()): the keys in ascending order
RECURSIVE SortedKeys(_)
SortedKeys(ks) ==
    IF ks = {} THEN << >>
    ELSE LET m == CHOOSE x \in ks : \A y \in ks \ {x} : LexLess(x, y)
         IN  << m >> \o SortedKeys(ks \ {m})

\* sep.join(f'{k}={v}' for k, v in sorted(params.items()))
RECURSIVE JoinPairs(_, _, _)
JoinPairs(params, keys, sep) ==
    IF keys = << >> THEN << >>
    ELSE Head(keys) \o << "=" >> \o params[Head(keys)]
         \o (IF Len(keys) > 1 THEN sep ELSE << >>)
         \o JoinPairs(params, Tail(keys), sep)

\* callback.py: the material verify_hmac signs
CallbackMaterial(query_params) ==
    LET params == [k \in DOMAIN query_params \ {K_hmac, K_signature} |-> query_params[k]]
    IN  JoinPairs(params, SortedKeys(DOMAIN params), << "&" >>)

\* proxy.py: the material verify_proxy_signature signs
ProxyMaterial(query_params) ==
    LET params == [k \in DOMAIN query_params \ {K_signature} |-> query_params[k]]
    IN  JoinPairs(params, SortedKeys(DOMAIN params), << >>)

\* verify_hmac checking the key of the digest and not the message
verify_hmac_Unsigned(query_params, hmac_value) ==
    IF ~IsAscii(hmac_value) THEN "TypeError"
    ELSE IF BeginsWith(hmac_value, << "hex[" >> \o SHOPIFY_API_SECRET \o << "|" >>)
    THEN "True" ELSE "False"

verify_hmac(query_params, hmac_value) ==
    compare_digest(HexDigest(SHOPIFY_API_SECRET, CallbackMaterial(query_params)),
                   hmac_value)

verify_proxy_signature(query_params, signature) ==
    compare_digest(HexDigest(SHOPIFY_API_SECRET, ProxyMaterial(query_params)),
                   signature)

\* body is None when the request carries no body: None.encode raises
verify_webhook_hmac(body, hmac_header) ==
    IF body = None THEN "AttributeError"
    ELSE compare_digest(B64Digest(SHOPIFY_API_SECRET, body), hmac_header)

----------------------------------------------------------------------------
(* Invocations and responses *)

Slots == {1, 2}

\* the envelope every handler returns; headers maps header names to values
Response(status, headers, error, message, deleted) ==
    [statusCode |-> status, headers |-> headers, error |-> error,
     message |-> message, deleted_parameters |-> deleted]

NoResponse == Response(0, << >>, "", << >>, << >>)

\* an invocation: its handler, its position, its event, what it has done so far
Invocation(kind, pc, event, resp, verified, shop) ==
    [kind |-> kind, pc |-> pc, event |-> event, resp |-> resp,
     verified |-> verified,      \* the signature check of this invocation returned True
     effects |-> << >>,          \* requests issued to the store and to the upstream
     failed |-> "",              \* the request that failed, if one did
     held |-> {},                \* names stored for the tenant when the invocation began
     shop |-> shop,              \* the tenant the handler works on
     access_token |-> None, scope |-> None,
     page |-> << >>,             \* names of the current page not yet deleted
     more |-> FALSE,             \* the paginator holds a NextToken
     deleted_params |-> << >>]

Idle == Invocation("idle", "idle", << >>, NoResponse, FALSE, None)

\* the invocation entry begins while the store is s
Begin(entry, s) == [entry EXCEPT !.held = ShopParameters(s, entry.shop)]

\* a handler returns resp
Return(invocation, resp) == [invocation EXCEPT !.pc = "done", !.resp = resp]

\* the request named by op is issued / is issued and fails
Sent(invocation, op) == [invocation EXCEPT !.effects = Append(@, op)]
Failed(invocation, op) == [invocation EXCEPT !.effects = Append(@, op), !.failed = op]

\* str(e) of the exceptions the handlers report
E_TypeError == << "comparing strings with non-ASCII characters is not supported" >>
E_ClientError == << "An error occurred when calling the SSM operation" >>
E_ParameterNotFound == << "An error occurred (ParameterNotFound)" >>
E_KeyError == << "'access_token'" >>
E_JSONDecodeError == << "Expecting value" >>
E_AttributeError == << "object has no attribute" >>

Tenant1 == << "a" >>
Tenant2 == << "a", "b" >>
Tenants == {Tenant1, Tenant2}

----------------------------------------------------------------------------
(* callback.py *)

\* the access tokens the upstream issues to a shop, and the scope granted with each
AccessTokens(shop) ==
    IF shop = Tenant1 THEN {<< "t", "1" >>, << "t", "2" >>} ELSE {<< "t", "3" >>}
ScopeOf(token) == IF token = << "t", "2" >> THEN << "r", "w" >> ELSE << "r" >>
\* datetime.utcnow().isoformat()
Now == << "2", "0", "2", "1" >>
FRONTEND_URL == << "https://frontend" >>

\* the signed query of a callback, as Shopify builds it with secret
SignedQuery(params, secret) ==
    params @@ (K_hmac :> HexDigest(secret, CallbackMaterial(params)))

InstallQuery(shop) ==
    (K_code :> << "c" >>) @@ (K_shop :> shop) @@ (K_timestamp :> << "1" >>)

CallbackQueries ==
    {SignedQuery(InstallQuery(s), SHOPIFY_API_SECRET) : s \in Tenants}
    \cup { NoQuery,
           InstallQuery(Tenant1),
           SignedQuery((K_code :> << "c" >>) @@ (K_timestamp :> << "1" >>),
                       SHOPIFY_API_SECRET),
           SignedQuery(InstallQuery(Tenant1), OtherSecret),
           InstallQuery(Tenant1) @@ (K_hmac :> << NonAscii >>),
           (K_timestamp :> << "2" >>)
               @@ SignedQuery(InstallQuery(Tenant1), SHOPIFY_API_SECRET) }

CallbackEvents == {[queryStringParameters |-> q] : q \in CallbackQueries}

\* callback_entry rejecting a request whose state cookie does not match its state
callback_entry_StateChecked(event) ==
    LET params == event.queryStringParameters
        code == Get(params, K_code)
        hmac_value == Get(params, K_hmac)
        shop == Get(params, K_shop)
        start == Invocation("callback", "exchange", event, NoResponse, FALSE, shop)
    IN  IF Falsy(code) \/ Falsy(hmac_value) \/ Falsy(shop)
        THEN Return(start, Response(400, << >>, "Missing required parameters", << >>, << >>))
        ELSE LET ok == verify_hmac(params, hmac_value)
             IN  IF ok = "TypeError"
                 THEN Return(start, Response(500, << >>, "Failed to complete installation",
                                             E_TypeError, << >>))
                 ELSE IF ok = "False"
                 THEN Return(start, Response(403, << >>, "Invalid HMAC signature", << >>, << >>))
                 ELSE IF (IF "Cookie" \in DOMAIN event.headers
                          THEN event.headers["Cookie"] ELSE << >>)
                             # << "shopify_oauth_state=" >>
                                   \o Str(Get(params, << "s", "t", "a", "t", "e" >>))
                 THEN Return(start, Response(403, << >>, "Invalid state", << >>, << >>))
                 ELSE [start EXCEPT !.verified = TRUE]

\* callback_entry going on to the exchange when the HMAC does not match
callback_entry_Unchecked(event) ==
    LET params == event.queryStringParameters
        code == Get(params, K_code)
        hmac_value == Get(params, K_hmac)
        shop == Get(params, K_shop)
        start == Invocation("callback", "exchange", event, NoResponse, FALSE, shop)
    IN  IF Falsy(code) \/ Falsy(hmac_value) \/ Falsy(shop)
        THEN Return(start, Response(400, << >>, "Missing required parameters", << >>, << >>))
        ELSE LET ok == verify_hmac(params, hmac_value)
             IN  IF ok = "TypeError"
                 THEN Return(start, Response(500, << >>, "Failed to complete installation",
                                             E_TypeError, << >>))
                 ELSE [start EXCEPT !.verified = (ok = "True")]

\* handler, lines 104-122: parameter validation and HMAC verification
callback_entry(event) ==
    LET params == event.queryStringParameters
        code == Get(params, K_code)
        hmac_value == Get(params, K_hmac)
        shop == Get(params, K_shop)
        start == Invocation("callback", "exchange", event, NoResponse, FALSE, shop)
    IN  IF Falsy(code) \/ Falsy(hmac_value) \/ Falsy(shop)
        THEN Return(start, Response(400, << >>, "Missing required parameters", << >>, << >>))
        ELSE LET ok == verify_hmac(params, hmac_value)
             IN  IF ok = "TypeError"
                 THEN Return(start, Response(500, << >>, "Failed to complete installation",
                                             E_TypeError, << >>))
                 ELSE IF ok = "False"
                 THEN Return(start, Response(403, << >>, "Invalid HMAC signature", << >>, << >>))
                 ELSE [start EXCEPT !.verified = TRUE]

\* callback_error reporting the token of the invocation next to the exception
callback_error_Verbose(invocation, e) ==
    Return(invocation, Response(500, << >>, "Failed to complete installation",
                                e \o << " ", "t", "o", "k", "e", "n", "=" >>
                                  \o Str(invocation.access_token), << >>))

\* handler, lines 141-150: the boundary that turns an exception into a 500
callback_error(invocation, e) ==
    Return(invocation, Response(500, << >>, "Failed to complete installation", e, << >>))

\* the handler run on each event up to its first request or its response
CallbackEntries == {callback_entry(event) : event \in CallbackEvents}

\* secrets.token_hex(16)
StateTokens == {<< "0", "f" >>, << "f", "0" >>}

\* the callback requests the browser sends after the initiator's redirect: the
\* query holds the state the initiator put in the authorization URL, the Cookie
\* header is absent or holds one of its state cookies
K_state == << "s", "t", "a", "t", "e" >>
StateCookie(state) == << "shopify_oauth_state=" >> \o state
CookieHeaders == {<< >>} \cup {("Cookie" :> StateCookie(state)) : state \in StateTokens}

StateQueries ==
    {SignedQuery(InstallQuery(Tenant1) @@ (K_state :> state), secret) :
        state \in StateTokens, secret \in {SHOPIFY_API_SECRET, OtherSecret}}
    \cup {InstallQuery(Tenant1) @@ (K_state :> << "0", "f" >>)}

StateCallbackEvents ==
    {[queryStringParameters |-> q, headers |-> h] : q \in StateQueries, h \in CookieHeaders}

StateCallbackEntries == {callback_entry(event) : event \in StateCallbackEvents}

\* the callback handler is invoked with an event of entries
CallbackInvoke(i, entries) ==
    /\ i \in instances
    /\ inv[i].pc \in {"idle", "done"}
    /\ \E entry \in entries : inv' = [inv EXCEPT ![i] = Begin(entry, store)]
    /\ UNCHANGED <<store, instances, client, call>>

\* response.text of the upstream when it refuses the code
ExchangeErrorText == << "i", "n", "v", "a", "l", "i", "d", "_", "r", "e", "q", "u", "e", "s", "t" >>

\* the responses of POST https://{shop}/admin/oauth/access_token
ExchangeResponses(shop) ==
    {[ok |-> TRUE, access_token |-> t, scope |-> ScopeOf(t), text |-> << >>] :
        t \in AccessTokens(shop)}
    \cup {[ok |-> TRUE, access_token |-> None, scope |-> None, text |-> << >>],
          [ok |-> FALSE, access_token |-> None, scope |-> None, text |-> ExchangeErrorText]}

\* exchange_code_for_token sending the request again after a failure
exchange_code_for_token_Retry(invocation, response) ==
    LET sent == Sent(invocation, "exchange")
    IN  IF ~response.ok
        THEN Failed(invocation, "exchange")
        ELSE IF response.access_token = None
        THEN callback_error(sent, E_KeyError)
        ELSE [sent EXCEPT !.pc = "put_access_token",
                          !.access_token = response.access_token,
                          !.scope = response.scope]

\* exchange_code_for_token and the reading of token_data, lines 125 and 128
exchange_code_for_token(invocation, response) ==
    LET sent == Sent(invocation, "exchange")
    IN  IF ~response.ok
        THEN callback_error(Failed(invocation, "exchange"),
                            << "Failed to exchange code: " >> \o response.text)
        ELSE IF response.access_token = None
        THEN callback_error(sent, E_KeyError)
        ELSE [sent EXCEPT !.pc = "put_access_token",
                          !.access_token = response.access_token,
                          !.scope = response.scope]

ExchangeCode(i) ==
    /\ i \in instances
    /\ inv[i].kind = "callback" /\ inv[i].pc = "exchange"
    /\ \E response \in ExchangeResponses(inv[i].shop) :
           inv' = [inv EXCEPT ![i] = exchange_code_for_token(inv[i], response)]
    /\ UNCHANGED <<store, instances, client, call>>

\* ssm_client.put_parameter(Name, Value, Overwrite=True)
put_parameter(s, name, value) ==
    [n \in DOMAIN s \cup {name} |-> IF n = name THEN value ELSE s[n]]

\* store_credentials: the parameter each of its three puts writes, and the next step
PutField(pc) ==
    CASE pc = "put_access_token" -> F_access_token
      [] pc = "put_scopes" -> F_scopes
      [] pc = "put_installed_at" -> F_installed_at

\* PutValue writing the access token under the scopes name too
PutValue_TokenAsScopes(invocation) ==
    CASE invocation.pc = "put_access_token" -> invocation.access_token
      [] invocation.pc = "put_scopes" -> invocation.access_token
      [] invocation.pc = "put_installed_at" -> Now

PutValue(invocation) ==
    CASE invocation.pc = "put_access_token" -> invocation.access_token
      [] invocation.pc = "put_scopes" -> invocation.scope
      [] invocation.pc = "put_installed_at" -> Now

\* PutNext ending the installation after the put of the access token
PutNext_TokenOnly(pc) ==
    CASE pc = "put_access_token" -> "done"
      [] pc = "put_scopes" -> "put_installed_at"
      [] pc = "put_installed_at" -> "done"

\* PutNext leaving out the put of the scopes
PutNext_SkipScopes(pc) ==
    CASE pc = "put_access_token" -> "put_installed_at"
      [] pc = "put_scopes" -> "put_installed_at"
      [] pc = "put_installed_at" -> "done"

PutNext(pc) ==
    CASE pc = "put_access_token" -> "put_scopes"
      [] pc = "put_scopes" -> "put_installed_at"
      [] pc = "put_installed_at" -> "done"

\* handler, lines 132-140
callback_redirect(invocation) ==
    Return(invocation,
           Response(302,
                    [Location |-> FRONTEND_URL \o << "?shop=" >> \o invocation.shop
                                  \o << "&installed=true" >>],
                    "", << >>, << >>))

\* one put_parameter call of store_credentials; the SSM call may fail
StoreCredentials(i) ==
    /\ i \in instances
    /\ inv[i].kind = "callback"
    /\ inv[i].pc \in {"put_access_token", "put_scopes", "put_installed_at"}
    /\ LET sent == Sent(inv[i], "put")
       IN  \/ /\ store' = put_parameter(store, ParamName(inv[i].shop, PutField(inv[i].pc)),
                                        PutValue(inv[i]))
              /\ inv' = [inv EXCEPT ![i] =
                            IF PutNext(inv[i].pc) = "done" THEN callback_redirect(sent)
                            ELSE [sent EXCEPT !.pc = PutNext(inv[i].pc)]]
           \/ /\ inv' = [inv EXCEPT ![i] = callback_error(Failed(inv[i], "put"), E_ClientError)]
              /\ UNCHANGED store
    /\ UNCHANGED <<instances, client, call>>

----------------------------------------------------------------------------
(* gdpr.py *)

Quote == "\""
K_shop_domain == << "s", "h", "o", "p", "_", "d", "o", "m", "a", "i", "n" >>

\* the JSON text {"shop_domain":"<shop>"}
ShopPayloadHead == << "{", Quote >> \o K_shop_domain \o << Quote, ":", Quote >>
ShopPayloadTail == << Quote, "}" >>
ShopPayload(shop) == ShopPayloadHead \o shop \o ShopPayloadTail

\* the JSON text {"customer":null}
CustomerNullPayload == << "{", Quote, "customer", Quote, ":", "null", "}" >>

\* json.loads on the request bodies of the model: the texts {} and [] and
\* {"shop_domain":"..."} and {"customer":null} parse, every other text raises
\* JSONDecodeError; customer is payload.get('customer', {}), None for null
json_loads(body) ==
    LET n == Len(body)
        h == Len(ShopPayloadHead)
        t == Len(ShopPayloadTail)
    IN  IF body = << "{", "}" >>
        THEN [type |-> "dict", shop_domain |-> None, customer |-> "dict"]
        ELSE IF body = << "[", "]" >>
        THEN [type |-> "list", shop_domain |-> None, customer |-> "dict"]
        ELSE IF body = CustomerNullPayload
        THEN [type |-> "dict", shop_domain |-> None, customer |-> None]
        ELSE IF /\ n >= h + t
                /\ BeginsWith(body, ShopPayloadHead)
                /\ SubSeq(body, n - t + 1, n) = ShopPayloadTail
                /\ \A k \in (h + 1)..(n - t) : body[k] \notin {Quote, "\\"}
        THEN [type |-> "dict", shop_domain |-> SubSeq(body, h + 1, n - t), customer |-> "dict"]
        ELSE [type |-> "JSONDecodeError", shop_domain |-> None, customer |-> "dict"]

\* str.lower on the header names of the model
Lower(name) ==
    CASE name = "X-Shopify-Topic" -> "x-shopify-topic"
      [] name = "X-Shopify-Hmac-Sha256" -> "x-shopify-hmac-sha256"
      [] name = "X-Shopify-Shop-Domain" -> "x-shopify-shop-domain"
      [] OTHER -> name

\* {k.lower(): v for k, v in headers.items()}
headers_lower(headers) ==
    [l \in {Lower(k) : k \in DOMAIN headers} |->
        headers[CHOOSE k \in DOMAIN headers : Lower(k) = l]]

\* headers_lower.get(name, '')
HeaderGet(headers, name) == IF name \in DOMAIN headers THEN headers[name] ELSE << >>

T_data_request == << "customers/data_request" >>
T_customers_redact == << "customers/redact" >>
T_shop_redact == << "shop/redact" >>
T_unknown == << "app/uninstalled" >>
Topics == {T_data_request, T_customers_redact, T_shop_redact, T_unknown}

WebhookBodies ==
    {None, << >>, << "{", "}" >>, << "[", "]" >>, << "x" >>}
    \cup {ShopPayload(s) : s \in Tenants}

\* the webhook as Shopify sends it: the signature covers the raw body
SignedWebhook(topic, shop, body, secret) ==
    [headers |-> ("X-Shopify-Topic" :> topic) @@ ("X-Shopify-Shop-Domain" :> shop)
                 @@ ("X-Shopify-Hmac-Sha256" :> B64Digest(secret, Str(body))),
     body |-> body]


WebhookEvents ==
    {SignedWebhook(T_shop_redact, Tenant1, b, SHOPIFY_API_SECRET) :
        b \in WebhookBodies \ {None}}
    \cup {SignedWebhook(t, Tenant1, b, SHOPIFY_API_SECRET) :
             t \in Topics, b \in WebhookBodies \ {None, ShopPayload(Tenant2)}}
    \cup {SignedWebhook(T_shop_redact, Tenant2, ShopPayload(Tenant1), SHOPIFY_API_SECRET),
          SignedWebhook(T_data_request, Tenant1, CustomerNullPayload, SHOPIFY_API_SECRET),
          SignedWebhook(T_customers_redact, Tenant1, CustomerNullPayload, SHOPIFY_API_SECRET),
          SignedWebhook(T_shop_redact, Tenant1, ShopPayload(Tenant1), OtherSecret),
          SignedWebhook(T_unknown, Tenant1, ShopPayload(Tenant1), OtherSecret),
          [headers |-> ("X-Shopify-Topic" :> T_unknown)
                           @@ ("X-Shopify-Hmac-Sha256" :> << NonAscii >>),
           body |-> ShopPayload(Tenant1)],
          [headers |-> ("X-Shopify-Topic" :> T_shop_redact),
           body |-> ShopPayload(Tenant1)],
          [headers |-> ("x-shopify-topic" :> T_shop_redact)
                           @@ ("x-shopify-hmac-sha256" :>
                                  B64Digest(SHOPIFY_API_SECRET, ShopPayload(Tenant1))),
           body |-> ShopPayload(Tenant1)],
          [headers |-> ("X-Shopify-Topic" :> T_shop_redact)
                           @@ ("X-Shopify-Hmac-Sha256" :> << "0" >>),
           body |-> None]}

JsonHeaders == [Content_Type |-> << "application/json" >>]

\* handler, lines 114-119: the outer boundary
gdpr_error(invocation) ==
    Return(invocation, Response(500, << >>, "Internal server error", << >>, << >>))

\* shop_redact_error swallowing the exception and reporting what was deleted
shop_redact_error_Swallowed(invocation, e) ==
    Return(invocation,
           Response(200, JsonHeaders, "",
                    << "All shop data has been deleted from our systems." >>,
                    invocation.deleted_params))

\* handle_shop_redact, lines 215-224: the boundary around delete_shop_data
shop_redact_error(invocation, e) ==
    Return(invocation, Response(500, JsonHeaders, "Failed to delete shop data", e, << >>))

\* shop_redact_ok treating an empty listing as a failure
shop_redact_ok_NonEmpty(invocation) ==
    IF invocation.deleted_params = << >>
    THEN Return(invocation, Response(500, JsonHeaders, "Failed to delete shop data",
                                     E_ParameterNotFound, << >>))
    ELSE Return(invocation,
                Response(200, JsonHeaders, "",
                         << "All shop data has been deleted from our systems." >>,
                         invocation.deleted_params))

\* handle_shop_redact, lines 201-213, with the result of delete_shop_data
shop_redact_ok(invocation) ==
    Return(invocation,
           Response(200, JsonHeaders, "",
                    << "All shop data has been deleted from our systems." >>,
                    invocation.deleted_params))

\* payload.get and customer.get raise AttributeError unless both are dicts
handle_customer_data_request(invocation, payload) ==
    IF payload.type # "dict" \/ payload.customer # "dict" THEN gdpr_error(invocation)
    ELSE Return(invocation,
                Response(200, JsonHeaders, "",
                         << "This app does not store customer-specific data. Only shop-level access tokens are stored for API access." >>,
                         << >>))

\* handle_customer_redact deleting the shop's data as handle_shop_redact does
handle_customer_redact_Deleting(invocation, payload) ==
    IF payload.type # "dict" THEN Return(invocation, Response(500, << >>, "Internal server error", << >>, << >>))
    ELSE [invocation EXCEPT !.pc = "list", !.shop = payload.shop_domain]

handle_customer_redact(invocation, payload) ==
    IF payload.type # "dict" \/ payload.customer # "dict" THEN gdpr_error(invocation)
    ELSE Return(invocation,
                Response(200, JsonHeaders, "",
                         << "This app does not store customer-specific data. No deletion required." >>,
                         << >>))

\* handle_shop_redact, lines 192-199: up to the call of delete_shop_data
handle_shop_redact(invocation, payload) ==
    IF payload.type # "dict" THEN gdpr_error(invocation)
    ELSE [invocation EXCEPT !.pc = "list", !.shop = payload.shop_domain]

\* handler, line 95: json.loads(body) if body else {}
Payload(body) ==
    IF body = << >> THEN [type |-> "dict", shop_domain |-> None, customer |-> "dict"]
    ELSE json_loads(body)

\* handler, lines 74-112
gdpr_entry(event) ==
    LET headers == headers_lower(event.headers)
        webhook_topic == HeaderGet(headers, "x-shopify-topic")
        hmac_header == HeaderGet(headers, "x-shopify-hmac-sha256")
        shop_domain == HeaderGet(headers, "x-shopify-shop-domain")
        body == event.body
        start == Invocation("webhook", "verify", event, NoResponse, FALSE, None)
        ok == verify_webhook_hmac(body, hmac_header)
    IN  IF ok \in {"AttributeError", "TypeError"} THEN gdpr_error(start)
        ELSE IF ok = "False"
        THEN Return(start, Response(401, << >>, "Invalid signature", << >>, << >>))
        ELSE LET verified == [start EXCEPT !.verified = TRUE]
                 payload == Payload(body)
             IN  IF payload.type = "JSONDecodeError" THEN gdpr_error(verified)
                 ELSE IF webhook_topic = T_data_request
                 THEN handle_customer_data_request(verified, payload)
                 ELSE IF webhook_topic = T_customers_redact
                 THEN handle_customer_redact(verified, payload)
                 ELSE IF webhook_topic = T_shop_redact
                 THEN handle_shop_redact(verified, payload)
                 ELSE Return(verified, Response(400, << >>, "Unknown topic", << >>, << >>))

\* the handler run on each event up to its first request or its response
WebhookEntries == {gdpr_entry(event) : event \in WebhookEvents}

WebhookInvoke(i) ==
    /\ i \in instances
    /\ inv[i].pc \in {"idle", "done"}
    /\ \E entry \in WebhookEntries : inv' = [inv EXCEPT ![i] = Begin(entry, store)]
    /\ UNCHANGED <<store, instances, client, call>>

Range(s) == {s[k] : k \in 1..Len(s)}

\* the orders in which a page can list the names of P
Orderings(P) ==
    {s \in [1..Cardinality(P) -> P] : \A a, b \in 1..Cardinality(P) : s[a] = s[b] => a = b}

\* ssm_client.delete_parameter(Name)
delete_parameter(s, name) == [n \in DOMAIN s \ {name} |-> s[n]]

\* delete_shop_data: the paginator fetches the next page of describe_parameters.
\* A page holds at most PageSize of the names not listed yet; the call may fail.
DescribeParameters(i) ==
    /\ i \in instances
    /\ inv[i].kind = "webhook" /\ inv[i].pc = "list"
    /\ LET sent == Sent(inv[i], "list")
           rest == ShopParameters(store, inv[i].shop) \ Range(inv[i].deleted_params)
       IN  \/ inv' = [inv EXCEPT ![i] =
                         shop_redact_error(Failed(inv[i], "list"), E_ClientError)]
           \/ /\ rest = {}
              /\ inv' = [inv EXCEPT ![i] = shop_redact_ok(sent)]
           \/ \E P \in SUBSET rest :
                 /\ P # {} /\ Cardinality(P) <= PageSize
                 /\ \E page \in Orderings(P) :
                       inv' = [inv EXCEPT ![i] =
                                  [sent EXCEPT !.pc = "delete", !.page = page,
                                               !.more = (P # rest)]]
    /\ UNCHANGED <<store, instances, client, call>>

\* delete_next reading the first page only
delete_next_FirstPage(invocation) ==
    IF invocation.page # << >> THEN invocation
    ELSE Return(invocation,
                Response(200, JsonHeaders, "",
                         << "All shop data has been deleted from our systems." >>,
                         invocation.deleted_params))

\* delete_shop_data, lines 43-56 and 62-66: after a deletion the loops go on with
\* the rest of the page, else with the next page, else the result is returned
delete_next(invocation) ==
    IF invocation.page # << >> THEN invocation
    ELSE IF invocation.more THEN [invocation EXCEPT !.pc = "list"]
    ELSE shop_redact_ok(invocation)

\* delete_shop_data, lines 52-56: one turn of the inner loop; the call may fail,
\* and fails when the parameter is no longer there
DeleteParameter(i) ==
    /\ i \in instances
    /\ inv[i].kind = "webhook" /\ inv[i].pc = "delete"
    /\ LET param_name == Head(inv[i].page)
       IN  \/ /\ inv' = [inv EXCEPT ![i] =
                            shop_redact_error(Failed(inv[i], "delete"),
                                              IF param_name \in DOMAIN store
                                              THEN E_ClientError
                                              ELSE E_ParameterNotFound)]
              /\ UNCHANGED store
           \/ /\ param_name \in DOMAIN store
              /\ store' = delete_parameter(store, param_name)
              /\ inv' = [inv EXCEPT ![i] =
                            delete_next([Sent(inv[i], "delete") EXCEPT
                                            !.page = Tail(@),
                                            !.deleted_params = Append(@, param_name)])]
    /\ UNCHANGED <<instances, client, call>>

----------------------------------------------------------------------------
(* proxy.py *)

\* the signed query of an app-proxy request, as Shopify builds it with secret
SignedProxyQuery(params, secret) ==
    params @@ (K_signature :> HexDigest(secret, ProxyMaterial(params)))

ProxyQuery(shop) == (K_shop :> shop) @@ (K_timestamp :> << "1" >>)

ProxyEvents ==
    {[queryStringParameters |-> SignedProxyQuery(ProxyQuery(Tenant1), SHOPIFY_API_SECRET),
      body |-> b] : b \in {None, << "{", "}" >>, << "[", "]" >>, << "x" >>}}
    \cup {[queryStringParameters |-> q, body |-> None] :
             q \in { SignedProxyQuery(ProxyQuery(Tenant2), SHOPIFY_API_SECRET),
                     NoQuery,
                     ProxyQuery(Tenant1),
                     SignedProxyQuery(ProxyQuery(Tenant1), OtherSecret),
                     ProxyQuery(Tenant1) @@ (K_signature :> << NonAscii >>),
                     (K_shop :> Tenant2)
                         @@ SignedProxyQuery(ProxyQuery(Tenant1), SHOPIFY_API_SECRET) }}

\* handler, lines 112-121: the boundary that turns an exception into a 500
proxy_error(invocation, e) ==
    Return(invocation, Response(500, JsonHeaders, "Internal server error", e, << >>))

\* handler, lines 73-91: parameter validation and signature verification
proxy_entry(event) ==
    LET params == event.queryStringParameters
        shop == Get(params, K_shop)
        signature == Get(params, K_signature)
        start == Invocation("proxy", "get_access_token", event, NoResponse, FALSE, shop)
    IN  IF Falsy(shop) \/ Falsy(signature)
        THEN Return(start, Response(400, JsonHeaders, "Missing required parameters",
                                    << >>, << >>))
        ELSE LET ok == verify_proxy_signature(params, signature)
             IN  IF ok = "TypeError" THEN proxy_error(start, E_TypeError)
                 ELSE IF ok = "False"
                 THEN Return(start, Response(403, JsonHeaders, "Invalid signature",
                                             << >>, << >>))
                 ELSE [start EXCEPT !.verified = TRUE]

\* the handler run on each event up to its first request or its response
ProxyEntries == {proxy_entry(event) : event \in ProxyEvents}

ProxyInvoke(i) ==
    /\ i \in instances
    /\ inv[i].pc \in {"idle", "done"}
    /\ \E entry \in ProxyEntries : inv' = [inv EXCEPT ![i] = Begin(entry, store)]
    /\ UNCHANGED <<store, instances, client, call>>

\* handler, lines 96-99: the request body is parsed after the token was read
proxy_parse_body(invocation) ==
    LET body == invocation.event.body
        request_body == IF Falsy(body) THEN json_loads(<< "{", "}" >>) ELSE json_loads(body)
    IN  IF request_body.type = "JSONDecodeError" THEN proxy_error(invocation, E_JSONDecodeError)
        ELSE IF request_body.type # "dict" THEN proxy_error(invocation, E_AttributeError)
        ELSE [invocation EXCEPT !.pc = "call_shopify_api"]

\* get_access_token answering an absent parameter with no token instead of raising
get_access_token_Default(invocation, s, fails) ==
    LET name == ParamName(invocation.shop, F_access_token)
    IN  IF fails /\ name \in DOMAIN s
        THEN Return(Failed(invocation, "get"),
                    Response(500, JsonHeaders, "Internal server error", E_ClientError, << >>))
        ELSE [Sent(invocation, "get") EXCEPT
                 !.pc = "call_shopify_api",
                 !.access_token = IF name \in DOMAIN s THEN s[name] ELSE None]

\* get_access_token, lines 18-27, and handler, lines 93-99; the SSM call may fail,
\* and fails with ParameterNotFound when the parameter is absent
get_access_token(invocation, s, fails) ==
    LET name == ParamName(invocation.shop, F_access_token)
    IN  IF name \notin DOMAIN s
        THEN proxy_error(Failed(invocation, "get"), E_ParameterNotFound)
        ELSE IF fails THEN proxy_error(Failed(invocation, "get"), E_ClientError)
        ELSE proxy_parse_body([Sent(invocation, "get") EXCEPT !.access_token = s[name]])

GetAccessToken(i) ==
    /\ i \in instances
    /\ inv[i].kind = "proxy" /\ inv[i].pc = "get_access_token"
    /\ \E fails \in BOOLEAN : inv' = [inv EXCEPT ![i] = get_access_token(inv[i], store, fails)]
    /\ UNCHANGED <<store, instances, client, call>>

\* call_shopify_api, lines 50-69, and handler, lines 101-111
call_shopify_api(invocation, ok) ==
    IF ~ok THEN proxy_error(Failed(invocation, "api"),
                            << "Shopify API error: " >> \o << "response.text" >>)
    ELSE Return(Sent(invocation, "api"),
                    Response(200,
                             [Content_Type |-> << "application/json" >>,
                              Access_Control_Allow_Origin |-> << "*" >>],
                             "", << >>, << >>))

CallShopifyApi(i) ==
    /\ i \in instances
    /\ inv[i].kind = "proxy" /\ inv[i].pc = "call_shopify_api"
    /\ \E ok \in BOOLEAN : inv' = [inv EXCEPT ![i] = call_shopify_api(inv[i], ok)]
    /\ UNCHANGED <<store, instances, client, call>>

----------------------------------------------------------------------------
(* auth.py *)

Lowercase == {"a", "b", "c", "d", "e", "f", "g", "h", "i", "j", "k", "l", "m",
              "n", "o", "p", "q", "r", "s", "t", "u", "v", "w", "x", "y", "z"}
Uppercase == {"A", "B", "C", "D", "E", "F", "G", "H", "I", "J", "K", "L", "M",
              "N", "O", "P", "Q", "R", "S", "T", "U", "V", "W", "X", "Y", "Z"}
Digits == {"0", "1", "2", "3", "4", "5", "6", "7", "8", "9"}

\* the literal part of shop_regex: \.myshopify\.com
MyshopifySuffix == << ".", "m", "y", "s", "h", "o", "p", "i", "f", "y", ".", "c", "o", "m" >>

\* $ of a Python pattern without re.MULTILINE: the end of the string, or the
\* position just before a newline that ends the string
DollarMatches(s, pos) ==
    \/ pos = Len(s) + 1
    \/ pos = Len(s) /\ s[pos] = "\n"

\* re.match(r'^[a-zA-Z0-9][a-zA-Z0-9-]*\.myshopify\.com$', shop)
shop_regex_match(shop) ==
    \E n \in 1..Len(shop) :
        /\ shop[1] \in Lowercase \cup Uppercase \cup Digits
        /\ \A k \in 2..n : shop[k] \in Lowercase \cup Uppercase \cup Digits \cup {"-"}
        /\ Len(shop) >= n + Len(MyshopifySuffix)
        /\ SubSeq(shop, n + 1, n + Len(MyshopifySuffix)) = MyshopifySuffix
        /\ DollarMatches(shop, n + Len(MyshopifySuffix) + 1)

\* handler of auth.py
auth_handler(event, state) ==
    LET query_params == event.queryStringParameters
        shop == Get(query_params, K_shop)
    IN  IF Falsy(shop)
        THEN Response(400, << >>, "Missing shop parameter", << >>, << >>)
        ELSE IF ~shop_regex_match(shop)
        THEN Response(400, << >>, "Invalid shop domain", << >>, << >>)
        ELSE Response(302,
                      [Location |-> << "https://" >> \o shop
                                    \o << "/admin/oauth/authorize?client_id=&scope=read_products,write_products,read_orders&redirect_uri=&state=" >>
                                    \o state,
                       Set_Cookie |-> << "shopify_oauth_state=" >> \o state
                                      \o << "; Path=/; Secure; HttpOnly; SameSite=Lax" >>],
                      "", << >>, << >>)

\* the strings over these characters of length at most n
LabelChars == {"a", "Z", "9", "-", "_"}
RECURSIVE StringsUpTo(_)
StringsUpTo(n) ==
    IF n = 0 THEN {<< >>}
    ELSE StringsUpTo(n - 1)
         \cup {Append(s, c) : s \in {t \in StringsUpTo(n - 1) : Len(t) = n - 1},
                              c \in LabelChars}

\* shop values tried on the initiator: a label, then a suffix, then a tail
AuthShops ==
    {l \o m \o t :
        l \in StringsUpTo(MaxLabel),
        m \in {MyshopifySuffix, << >>,
               SubSeq(MyshopifySuffix, 1, Len(MyshopifySuffix) - 1),
               << "x" >> \o Tail(MyshopifySuffix)},
        t \in {<< >>, << "\n" >>, << "x" >>, << "\n", "\n" >>, << "\n", "x" >>,
               MyshopifySuffix}}

AuthEventsOf(shops) ==
    {[queryStringParameters |-> (K_shop :> s)] : s \in shops}
    \cup {[queryStringParameters |-> NoQuery],
          [queryStringParameters |-> (K_code :> << "c" >>)]}

\* the initiator run on event, drawing state
auth_entry(event, state) ==
    Return(Invocation("auth", "done", event, NoResponse, FALSE,
                      Get(event.queryStringParameters, K_shop)),
           auth_handler(event, state))

AuthEntries(shops) ==
    {auth_entry(event, state) : event \in AuthEventsOf(shops), state \in StateTokens}

\* shop values the initiator receives next to the other handlers
AuthShopsCore == {Tenant1 \o MyshopifySuffix, Tenant1}

AuthEntriesCore == AuthEntries(AuthShopsCore)
AuthEntriesAll == AuthEntries(AuthShops)

\* the initiator is invoked with an event of entries
AuthInvoke(i, entries) ==
    /\ i \in instances
    /\ inv[i].pc \in {"idle", "done"}
    /\ \E entry \in entries : inv' = [inv EXCEPT ![i] = Begin(entry, store)]
    /\ UNCHANGED <<store, instances, client, call>>

----------------------------------------------------------------------------
(* utils/shopify-client.py *)

\* ShopifyClient(shop): __init__
ShopifyClient(shop) == [shop |-> shop, _access_token |-> None]

\* ShopifyClient.get_access_token: the memoized token, else the stored one
\* (None stands for the ParameterNotFound the store raises)
client_get_access_token(c, s) ==
    LET name == ParamName(c.shop, F_access_token)
    IN  IF ~Falsy(c._access_token) THEN c._access_token
        ELSE IF name \in DOMAIN s THEN s[name]
        ELSE None

\* ShopifyClient.request and ShopifyClient.graphql as one call of the tooling:
\* the token is read, then the request is sent with it; ok tells whether the
\* upstream answers with success
client_request(c, s, ok) ==
    LET token == client_get_access_token(c, s)
        sent == [Invocation("client", "done", << >>, NoResponse, FALSE, c.shop)
                    EXCEPT !.access_token = token,
                           !.effects = (IF Falsy(c._access_token) THEN << "get" >> ELSE << >>)
                                       \o (IF token = None THEN << >> ELSE << "api" >>)]
    IN  IF token = None THEN Return(sent, Response(500, << >>, "ParameterNotFound", << >>, << >>))
        ELSE IF ok THEN Return(sent, Response(200, << >>, "", << >>, << >>))
        ELSE Return(sent, Response(500, << >>, "HTTPError", << >>, << >>))

\* the tooling constructs a fresh client for its shop
ClientNew ==
    /\ client' = ShopifyClient(Tenant1)
    /\ client # client'
    /\ UNCHANGED <<store, inv, instances, call>>

\* the tooling calls request() or graphql() on its client
ClientRequest(i) ==
    /\ i \in instances
    /\ inv[i].pc \in {"idle", "done"}
    /\ \E ok \in BOOLEAN :
          /\ inv' = [inv EXCEPT ![i] = client_request(client, store, ok)]
          /\ client' = [client EXCEPT !._access_token = inv'[i].access_token]
    /\ UNCHANGED <<store, instances, call>>

----------------------------------------------------------------------------
(* Direct calls of the signature verifiers *)

\* parameter names and values of the maps the verifiers are called with
ParamKeys == {<< "a" >>, << "b" >>, << "Z" >>, K_hmac, K_signature}
ParamValues == {<< "1" >>, << "2" >>, << "1", "&", "b", "=", "2" >>}

\* every map from some of the names to values
ParamMaps == UNION {[S -> ParamValues] : S \in SUBSET ParamKeys}

\* the maps that differ from q in the value of exactly one parameter
OneValueChanged(q) ==
    UNION {{[q EXCEPT ![k] = v] : v \in ParamValues \ {q[k]}} : k \in DOMAIN q}

\* a call of verify_hmac(query_params, hmac_value) or of
\* verify_proxy_signature(query_params, signature): the sender signed the map
\* signed with secret, the verifier receives query_params and that signature
Call(fn, secret, signed, query_params) ==
    [fn |-> fn, secret |-> secret, signed |-> signed, query_params |-> query_params,
     signature |-> HexDigest(secret, IF fn = "verify_hmac" THEN CallbackMaterial(signed)
                                     ELSE ProxyMaterial(signed)),
     material |-> << >>,        \* the message the verifier built from query_params
     result |-> "pending"]

NoCall ==
    [fn |-> "none", secret |-> << >>, signed |-> << >>, query_params |-> << >>,
     signature |-> << >>, material |-> << >>, result |-> "none"]

\* verify_hmac runs on the pending call
VerifyHmac ==
    /\ call.fn = "verify_hmac" /\ call.result = "pending"
    /\ call' = [call EXCEPT !.material = CallbackMaterial(call.query_params),
                            !.result = verify_hmac(call.query_params, call.signature)]
    /\ UNCHANGED <<store, inv, instances, client>>

\* verify_proxy_signature runs on the pending call
VerifyProxySignature ==
    /\ call.fn = "verify_proxy_signature" /\ call.result = "pending"
    /\ call' = [call EXCEPT !.material = ProxyMaterial(call.query_params),
                            !.result = verify_proxy_signature(call.query_params,
                                                              call.signature)]
    /\ UNCHANGED <<store, inv, instances, client>>

----------------------------------------------------------------------------
(* The system *)

Init ==
    /\ store = << >>
    /\ inv = [i \in Slots |-> Idle]
    /\ instances = {1}
    /\ client = ShopifyClient(Tenant1)
    /\ call = NoCall

Next ==
    \/ \E i \in Slots : AuthInvoke(i, AuthEntriesCore)
    \/ \E i \in Slots : CallbackInvoke(i, CallbackEntries)
    \/ \E i \in Slots : ExchangeCode(i)
    \/ \E i \in Slots : StoreCredentials(i)
    \/ \E i \in Slots : WebhookInvoke(i)
    \/ \E i \in Slots : DescribeParameters(i)
    \/ \E i \in Slots : DeleteParameter(i)
    \/ \E i \in Slots : ProxyInvoke(i)
    \/ \E i \in Slots : GetAccessToken(i)
    \/ \E i \in Slots : CallShopifyApi(i)
    \/ ClientNew
    \/ \E i \in Slots : ClientRequest(i)

Spec == Init /\ [][Next]_vars

\* the initiator alone, on every shop value of AuthShops
NextAuth == \E i \in Slots : AuthInvoke(i, AuthEntriesAll)

SpecAuth == Init /\ [][NextAuth]_vars

\* the initiator and the callback handler, on requests with and without the
\* state cookie
NextState ==
    \/ \E i \in Slots : AuthInvoke(i, AuthEntriesCore)
    \/ \E i \in Slots : CallbackInvoke(i, StateCallbackEntries)
    \/ \E i \in Slots : ExchangeCode(i)
    \/ \E i \in Slots : StoreCredentials(i)

SpecState == Init /\ [][NextState]_vars

\* the signature verifiers alone, called directly: the map arrives as it was
\* signed, or with one value changed on the way
InitVerify ==
    /\ store = << >>
    /\ inv = [i \in Slots |-> Idle]
    /\ instances = {1}
    /\ client = ShopifyClient(Tenant1)
    /\ \E fn \in {"verify_hmac", "verify_proxy_signature"},
          secret \in {SHOPIFY_API_SECRET, OtherSecret},
          signed \in ParamMaps :
          \E query_params \in {signed} \cup OneValueChanged(signed) :
              call = Call(fn, secret, signed, query_params)

NextVerify == VerifyHmac \/ VerifyProxySignature

SpecVerify == InitVerify /\ [][NextVerify]_vars


\* two Lambda instances serve callback requests of Tenant1 at the same time: the
\* steps of the two invocations interleave in any order
ConcurrentCallbackEntries ==
    {callback_entry([queryStringParameters |-> SignedQuery(InstallQuery(Tenant1), secret)]) :
        secret \in {SHOPIFY_API_SECRET, OtherSecret}}

InitConcurrent ==
    /\ store = << >>
    /\ inv = [i \in Slots |-> Idle]
    /\ instances = Slots
    /\ client = ShopifyClient(Tenant1)
    /\ call = NoCall

NextConcurrent ==
    \/ \E i \in Slots : CallbackInvoke(i, ConcurrentCallbackEntries)
    \/ \E i \in Slots : ExchangeCode(i)
    \/ \E i \in Slots : StoreCredentials(i)

SpecConcurrent == InitConcurrent /\ [][NextConcurrent]_vars


\* the verifiers called with any pair of small maps: one the sender signed, one
\* the verifier receives; a value may hold the characters the join writes
\* between names and values
PairKeys == {<< "a" >>, << "b" >>, K_hmac}
PairValues == {<< "1" >>, << "2" >>, << "1", "&", "b", "=", "2" >>, << "1", "b", "=", "2" >>}
PairMaps == UNION {[S -> PairValues] : S \in SUBSET PairKeys}

InitPairs ==
    /\ store = << >>
    /\ inv = [i \in Slots |-> Idle]
    /\ instances = {1}
    /\ client = ShopifyClient(Tenant1)
    /\ \E fn \in {"verify_hmac", "verify_proxy_signature"},
          secret \in {SHOPIFY_API_SECRET, OtherSecret},
          signed \in PairMaps, query_params \in PairMaps :
          call = Call(fn, secret, signed, query_params)

SpecPairs == InitPairs /\ [][NextVerify]_vars

----------------------------------------------------------------------------
(* Properties *)

Handlers == {"callback", "webhook", "proxy"}

\* environment i takes the step
Actor(i) == inv'[i] # inv[i]

\* the topic header of a webhook event
Topic(event) == HeaderGet(headers_lower(event.headers), "x-shopify-topic")

\* the tenant header of a webhook event
HeaderTenant(event) == HeaderGet(headers_lower(event.headers), "x-shopify-shop-domain")

\* the tenant the JSON payload of a webhook event names
PayloadTenant(event) == Str(Payload(event.body).shop_domain)

\* v is a shop/redact webhook with a valid signature and a JSON object as payload
ShopRedact(v) ==
    /\ v.kind = "webhook" /\ v.verified
    /\ Topic(v.event) = T_shop_redact
    /\ Payload(v.event.body).type = "dict"

\* <prefix>/<tenant>/
TenantKeyPrefix(tenant) == PARAMETER_STORE_PREFIX \o << "/" >> \o tenant \o << "/" >>

\* the names of the store in the namespace of tenant
KeysOf(tenant) == {n \in DOMAIN store : BeginsWith(n, TenantKeyPrefix(tenant))}

\* how often the request op occurs among the requests of v
Count(v, op) == Cardinality({k \in 1..Len(v.effects) : v.effects[k] = op})

\* C1: a callback, webhook or proxy invocation has issued a request to the store
\* or to the upstream only if its signature verification returned true, and a
\* step of an invocation whose verification did not return true leaves the
\* store unchanged.
C1_SideEffectsGated ==
    /\ [](\A i \in Slots :
             inv[i].kind \in Handlers /\ inv[i].effects # << >> => inv[i].verified)
    /\ [][\A i \in Slots :
             Actor(i) /\ inv'[i].kind \in Handlers /\ ~inv'[i].verified
                 => store' = store /\ inv'[i].effects = << >>]_vars

\* a request with a wrong signature was rejected while the store holds credentials
C1_Witness ==
    \E i \in Slots :
        /\ inv[i].kind = "callback" /\ inv[i].resp.statusCode = 403
        /\ inv[i].effects = << >>
        /\ Cardinality(DOMAIN store) = 6

\* C2: a step that creates or overwrites a name of the store is a step of the
\* callback handler, within the namespace of the tenant it installs; a step that
\* removes a name is a step of a shop/redact webhook; the initiator, the proxy
\* relay, the customers/* webhooks and the ShopifyClient never change the store.
C2_StoreFrame ==
    [][/\ {n \in DOMAIN store' : n \notin DOMAIN store \/ store'[n] # store[n]} # {}
            => \E i \in Slots :
                  /\ Actor(i) /\ inv[i].kind = "callback"
                  /\ \A n \in DOMAIN store' :
                        n \notin DOMAIN store \/ store'[n] # store[n]
                            => BeginsWith(n, TenantKeyPrefix(inv[i].shop))
       /\ DOMAIN store \ DOMAIN store' # {}
            => \E i \in Slots :
                  Actor(i) /\ inv[i].kind = "webhook" /\ Topic(inv[i].event) = T_shop_redact
       /\ \A i \in Slots :
             Actor(i) /\ inv'[i].kind \in {"auth", "proxy", "client"} => store' = store
       /\ client' # client => store' = store]_vars

\* the ShopifyClient was used while both tenants hold credentials
C2_Witness ==
    \E i \in Slots :
        /\ inv[i].kind = "client" /\ inv[i].resp.statusCode = 200
        /\ Cardinality(DOMAIN store) = 6

\* C3: a shop/redact webhook with a valid signature that names a tenant holding
\* the set K of names, and none of whose store requests fails, ends with 200,
\* has deleted exactly |K| times, lists exactly the names of K, and leaves no
\* name in the namespace of the tenant.
C3_ShopRedactDeletesAll ==
    \A i \in Slots :
        ShopRedact(inv[i]) /\ inv[i].pc = "done" /\ inv[i].failed = ""
            => /\ inv[i].resp.statusCode = 200
               /\ Count(inv[i], "delete") = Cardinality(inv[i].held)
               /\ Len(inv[i].resp.deleted_parameters) = Cardinality(inv[i].held)
               /\ Range(inv[i].resp.deleted_parameters) = inv[i].held
               /\ KeysOf(PayloadTenant(inv[i].event)) = {}

\* three names of Tenant1 were deleted over two pages, next to those of Tenant2
C3_Witness ==
    \E i \in Slots :
        /\ ShopRedact(inv[i]) /\ inv[i].pc = "done" /\ inv[i].failed = ""
        /\ PayloadTenant(inv[i].event) = Tenant1
        /\ Cardinality(inv[i].held) = 3
        /\ Count(inv[i], "list") >= 2
        /\ KeysOf(Tenant2) # {}

\* C4 as stated: every name a shop/redact webhook deletes lies in the namespace
\* of the tenant of the request's tenant header.
C4_DeletesHeaderTenant ==
    \A i \in Slots :
        ShopRedact(inv[i])
            => \A n \in Range(inv[i].deleted_params) :
                  BeginsWith(n, TenantKeyPrefix(HeaderTenant(inv[i].event)))

\* C4, amended: a shop/redact webhook works on the tenant its JSON payload
\* names in shop_domain (the text None when the field is absent); every name
\* it lists or deletes begins with <prefix>/<that tenant>/, and its steps leave
\* every name outside that namespace unchanged, also the names of a tenant
\* whose name begins with that tenant's name.
C4_DeletesPayloadTenant ==
    /\ [](\A i \in Slots :
             ShopRedact(inv[i])
                 => /\ Str(inv[i].shop) = PayloadTenant(inv[i].event)
                    /\ \A n \in Range(inv[i].deleted_params) \cup Range(inv[i].page) :
                          BeginsWith(n, TenantKeyPrefix(PayloadTenant(inv[i].event))))
    /\ [][\A i \in Slots :
             Actor(i) /\ ShopRedact(inv[i])
                 => \A n \in DOMAIN store :
                       ~BeginsWith(n, TenantKeyPrefix(PayloadTenant(inv[i].event)))
                           => n \in DOMAIN store' /\ store'[n] = store[n]]_vars

\* the webhook carries Tenant2 in its header and Tenant1 in its payload: the
\* three names of Tenant1 are gone, the three of Tenant2 are there
C4_Witness ==
    \E i \in Slots :
        /\ ShopRedact(inv[i]) /\ inv[i].resp.statusCode = 200
        /\ HeaderTenant(inv[i].event) = Tenant2
        /\ PayloadTenant(inv[i].event) = Tenant1
        /\ Len(inv[i].deleted_params) = 3
        /\ Cardinality(KeysOf(Tenant2)) = 3

\* C5: when the listing or a deletion of a shop/redact webhook fails, the
\* invocation ends with 500 and an error message, the failed request is its
\* last one, and the namespace holds exactly the names it held before minus
\* the names deleted before the failure.
C5_PartialFailure ==
    \A i \in Slots :
        ShopRedact(inv[i]) /\ inv[i].failed # ""
            => /\ inv[i].pc = "done"
               /\ inv[i].resp.statusCode = 500
               /\ inv[i].resp.error = "Failed to delete shop data"
               /\ inv[i].resp.message # << >>
               /\ inv[i].effects[Len(inv[i].effects)] = inv[i].failed
               /\ Count(inv[i], inv[i].failed) = IF inv[i].failed = "list"
                                                 THEN Count(inv[i], "list")
                                                 ELSE Len(inv[i].deleted_params) + 1
               /\ KeysOf(PayloadTenant(inv[i].event))
                      = inv[i].held \ Range(inv[i].deleted_params)

\* the second deletion failed: one name is gone, two are left
C5_Witness ==
    \E i \in Slots :
        /\ ShopRedact(inv[i]) /\ inv[i].failed = "delete"
        /\ Len(inv[i].deleted_params) = 1
        /\ Cardinality(KeysOf(PayloadTenant(inv[i].event))) = 2

\* C6: a shop/redact webhook for a tenant that holds no name, none of whose
\* requests fails, ends with 200 and an empty list of deleted names, issues no
\* deletion, and none of its steps changes the store.
C6_DeleteAllIdempotent ==
    /\ [](\A i \in Slots :
             (ShopRedact(inv[i]) /\ inv[i].held = {} /\ inv[i].pc = "done" /\ inv[i].failed = "")
                 => /\ inv[i].resp.statusCode = 200
                    /\ inv[i].resp.deleted_parameters = << >>
                    /\ inv[i].effects = << "list" >>)
    /\ [][\A i \in Slots :
             Actor(i) /\ ShopRedact(inv'[i]) /\ inv'[i].held = {} => store' = store]_vars

\* shop/redact for Tenant1, which holds nothing, while Tenant2 holds its three names
C6_Witness ==
    \E i \in Slots :
        /\ ShopRedact(inv[i]) /\ inv[i].pc = "done" /\ inv[i].resp.statusCode = 200
        /\ PayloadTenant(inv[i].event) = Tenant1
        /\ inv[i].held = {}
        /\ Cardinality(KeysOf(Tenant2)) = 3

\* C7: a proxy invocation with a valid signature for a tenant without a stored
\* access token never reaches the upstream call, and ends with 500.
C7_ProxyWithoutToken ==
    \A i \in Slots :
        (/\ inv[i].kind = "proxy"
         /\ inv[i].verified
         /\ TenantKeyPrefix(inv[i].shop) \o F_access_token \notin DOMAIN store)
            => (/\ inv[i].pc # "call_shopify_api"
                /\ Count(inv[i], "api") = 0
                /\ (inv[i].pc = "done" => inv[i].resp.statusCode = 500))

\* the relay failed on the lookup for a tenant whose other names are stored
C7_Witness ==
    \E i \in Slots :
        /\ inv[i].kind = "proxy" /\ inv[i].verified /\ inv[i].pc = "done"
        /\ inv[i].resp.statusCode = 500
        /\ inv[i].resp.message = E_ParameterNotFound
        /\ inv[i].effects = << "get" >>
        /\ KeysOf(inv[i].shop) # {}

\* C8 as stated: a webhook with a valid signature and a topic that is none of
\* the three known ones ends with 400 and issues no store request.
C8_UnknownTopic400 ==
    \A i \in Slots :
        (/\ inv[i].kind = "webhook"
         /\ inv[i].verified
         /\ inv[i].pc = "done"
         /\ Topic(inv[i].event) \notin {T_data_request, T_customers_redact, T_shop_redact})
            => (inv[i].resp.statusCode = 400 /\ inv[i].effects = << >>)

\* the request of v carries the parameters its handler requires and a
\* signature that differs from the one the handler computes
SignatureMismatch(v) ==
    LET q == v.event.queryStringParameters
    IN  \/ (/\ v.kind = "callback"
            /\ ~Falsy(Get(q, K_code)) /\ ~Falsy(Get(q, K_shop)) /\ ~Falsy(Get(q, K_hmac))
            /\ Get(q, K_hmac) # HexDigest(SHOPIFY_API_SECRET, CallbackMaterial(q)))
        \/ (/\ v.kind = "proxy"
            /\ ~Falsy(Get(q, K_shop)) /\ ~Falsy(Get(q, K_signature))
            /\ Get(q, K_signature) # HexDigest(SHOPIFY_API_SECRET, ProxyMaterial(q)))
        \/ (/\ v.kind = "webhook"
            /\ v.event.body # None
            /\ HeaderGet(headers_lower(v.event.headers), "x-shopify-hmac-sha256")
                   # B64Digest(SHOPIFY_API_SECRET, v.event.body))

\* C9 as stated: a request that carries its required parameters and whose
\* signature differs from the computed one ends with 403 (callback, proxy) or
\* 401 (webhook).
C9_MismatchRejected ==
    \A i \in Slots :
        (inv[i].pc = "done" /\ SignatureMismatch(inv[i]))
            => inv[i].resp.statusCode = (IF inv[i].kind = "webhook" THEN 401 ELSE 403)

\* the tenant strings C10 describes: an alphanumeric character, then
\* alphanumerics or hyphens, then .myshopify.com, and nothing else
ValidTenant(shop) ==
    LET n == Len(shop) - Len(MyshopifySuffix)
    IN  /\ shop # None
        /\ n >= 1
        /\ SubSeq(shop, n + 1, Len(shop)) = MyshopifySuffix
        /\ shop[1] \in Lowercase \cup Uppercase \cup Digits
        /\ \A k \in 2..n : shop[k] \in Lowercase \cup Uppercase \cup Digits \cup {"-"}

\* C10 as stated: the initiator answers 302 with Location and Set-Cookie for
\* exactly the valid tenant strings, and 400 for every other shop value.
C10_InitiatorValidatesTenant ==
    \A i \in Slots :
        (inv[i].kind = "auth" /\ inv[i].pc = "done")
            => IF ValidTenant(inv[i].shop)
               THEN /\ inv[i].resp.statusCode = 302
                    /\ DOMAIN inv[i].resp.headers = {"Location", "Set_Cookie"}
               ELSE inv[i].resp.statusCode = 400


\* C11: a call of verify_hmac with the signature the deployment's secret gives
\* over the map it receives returns True; when the map received differs from
\* the map signed in the value of one parameter other than hmac and signature,
\* it returns False.
C11_RoundTripAndTamper ==
    (call.fn = "verify_hmac" /\ call.result # "pending"
        /\ call.secret = SHOPIFY_API_SECRET)
        => /\ call.query_params = call.signed => call.result = "True"
           /\ (\E k \in DOMAIN call.signed \ {K_hmac, K_signature} :
                  /\ call.query_params[k] # call.signed[k]
                  /\ call.query_params = [call.signed EXCEPT ![k] = call.query_params[k]])
                 => call.result = "False"

\* the value of b was changed to one that holds a separator: rejected
C11_Witness ==
    /\ call.fn = "verify_hmac" /\ call.result = "False"
    /\ call.secret = SHOPIFY_API_SECRET
    /\ DOMAIN call.signed = {<< "a" >>, << "b" >>, K_hmac}
    /\ call.signed[<< "b" >>] = << "2" >>
    /\ call.query_params = [call.signed EXCEPT ![<< "b" >>] = << "1", "&", "b", "=", "2" >>]


\* C12: a callback invocation whose token exchange failed, or answered without
\* a token, has a valid signature, has ended with 500, has issued the exchange
\* request once and no other request, and none of its steps changes the store.
C12_ExchangeFailureFatal ==
    /\ [](\A i \in Slots :
             (/\ inv[i].kind = "callback"
              /\ Count(inv[i], "exchange") > 0
              /\ inv[i].access_token = None)
                 => (/\ inv[i].verified
                     /\ inv[i].pc = "done"
                     /\ inv[i].resp.statusCode = 500
                     /\ inv[i].effects = << "exchange" >>
                     /\ KeysOf(inv[i].shop) = inv[i].held))
    /\ [][\A i \in Slots :
             (Actor(i) /\ inv'[i].kind = "callback" /\ inv'[i].access_token = None)
                 => store' = store]_vars

\* the exchange failed for a tenant that holds its three names from an earlier
\* installation
C12_Witness ==
    \E i \in Slots :
        /\ inv[i].kind = "callback" /\ inv[i].failed = "exchange"
        /\ inv[i].resp.statusCode = 500
        /\ Cardinality(inv[i].held) = 3
        /\ Cardinality(KeysOf(inv[i].shop)) = 3


\* C13: a callback invocation that has answered 302 has a valid signature, has
\* issued the exchange and then three puts, none of which failed, redirects
\* to <front end>?shop=<tenant>&installed=true, and the store holds
\* access-token, scopes and installed-at of the tenant, the first two with the
\* token and the scope its exchange returned.
C13_RedirectAfterStore ==
    \A i \in Slots :
        (inv[i].kind = "callback" /\ inv[i].resp.statusCode = 302)
            => (/\ inv[i].verified /\ inv[i].pc = "done" /\ inv[i].failed = ""
                /\ inv[i].effects = << "exchange", "put", "put", "put" >>
                /\ inv[i].access_token \in AccessTokens(inv[i].shop)
                /\ inv[i].resp.headers.Location
                       = FRONTEND_URL \o << "?shop=" >> \o inv[i].shop
                             \o << "&installed=true" >>
                /\ {TenantKeyPrefix(inv[i].shop) \o f :
                       f \in {F_access_token, F_scopes, F_installed_at}} \subseteq DOMAIN store
                /\ store[TenantKeyPrefix(inv[i].shop) \o F_access_token] = inv[i].access_token
                /\ store[TenantKeyPrefix(inv[i].shop) \o F_scopes] = inv[i].scope
                /\ inv[i].scope = ScopeOf(inv[i].access_token))

\* a second installation of Tenant1 has replaced the token the client had read
\* after the first one
C13_Witness ==
    \E i \in Slots :
        /\ inv[i].kind = "callback" /\ inv[i].resp.statusCode = 302
        /\ inv[i].shop = Tenant1
        /\ Cardinality(inv[i].held) = 3
        /\ client._access_token # None
        /\ client._access_token # inv[i].access_token


\* C14 as stated: a webhook with a valid signature, a body that is JSON and
\* the topic customers/data_request or customers/redact ends with 200 and
\* issues no store request.
C14_CustomerTopics200 ==
    \A i \in Slots :
        (/\ inv[i].kind = "webhook"
         /\ inv[i].verified
         /\ inv[i].pc = "done"
         /\ Topic(inv[i].event) \in {T_data_request, T_customers_redact}
         /\ Payload(inv[i].event.body).type # "JSONDecodeError")
            => (inv[i].resp.statusCode = 200 /\ inv[i].effects = << >>)


\* C15 as stated: every call of the client uses the token a fresh instance
\* would read from the store at that moment, and fails exactly when a fresh
\* instance would find no token.
C15_CacheTransparent ==
    [][\A i \in Slots :
          (Actor(i) /\ inv'[i].kind = "client")
              => LET fresh == client_get_access_token(ShopifyClient(client.shop), store)
                 IN  /\ inv'[i].access_token = fresh
                     /\ (inv'[i].resp.error = "ParameterNotFound") = (fresh = None)]_vars


\* the text v occurs in text
Occurs(v, text) ==
    \E k \in 1..(Len(text) - Len(v) + 1) : SubSeq(text, k, k + Len(v) - 1) = v

\* the API secret and the access tokens the upstream issues
SecretValues == {SHOPIFY_API_SECRET} \cup UNION {AccessTokens(shop) : shop \in Tenants}

\* C16: neither the message nor a header of a response of the callback handler
\* holds the API secret or an access token, and the 500 response of each
\* failure path (exchange refused, answer without token, failed put) is the
\* same whatever the secret and the token are; the text of the upstream and
\* of the store client is taken to hold neither.
C16_NoSecretInResponse ==
    \A i \in Slots :
        inv[i].kind = "callback"
            => /\ \A v \in SecretValues :
                     /\ ~Occurs(v, inv[i].resp.message)
                     /\ \A h \in DOMAIN inv[i].resp.headers :
                            ~Occurs(v, inv[i].resp.headers[h])
               /\ inv[i].resp.statusCode = 500
                     => /\ inv[i].resp.error = "Failed to complete installation"
                        /\ inv[i].resp.headers = << >>
                        /\ inv[i].resp.message
                               = (IF inv[i].failed = "exchange"
                                      THEN << "Failed to exchange code: " >> \o ExchangeErrorText
                                  ELSE IF inv[i].failed = "put" THEN E_ClientError
                                  ELSE IF inv[i].verified THEN E_KeyError
                                  ELSE E_TypeError)

\* the third put failed after the token t2 was obtained and stored
C16_Witness ==
    \E i \in Slots :
        /\ inv[i].kind = "callback" /\ inv[i].resp.statusCode = 500
        /\ inv[i].failed = "put"
        /\ inv[i].access_token = << "t", "2" >>
        /\ Count(inv[i], "put") = 3


\* the fields each call site designates as signature carriers, and its separator
Carriers(fn) == IF fn = "verify_hmac" THEN {K_hmac, K_signature} ELSE {K_signature}
Separator(fn) == IF fn = "verify_hmac" THEN << "&" >> ELSE << >>

\* a comes before b in byte-wise lexicographic order
ByteLess(a, b) ==
    \E k \in 1..(Len(a) + 1) :
        /\ k <= Len(b)
        /\ \A j \in 1..(k - 1) : a[j] = b[j]
        /\ (k = Len(a) + 1 \/ Ord(a[k]) < Ord(b[k]))

\* the reference canonical form of q: the entries whose key is not a carrier,
\* the one with j - 1 smaller keys at place j, each as key=value, sep between
RECURSIVE CanonicalFrom(_, _, _, _)
CanonicalFrom(j, q, ks, sep) ==
    IF j > Cardinality(ks) THEN << >>
    ELSE LET key == CHOOSE k \in ks : Cardinality({x \in ks : ByteLess(x, k)}) = j - 1
         IN  (IF j > 1 THEN sep ELSE << >>)
             \o key \o << "=" >> \o q[key] \o CanonicalFrom(j + 1, q, ks, sep)

Canonical(q, carriers, sep) == CanonicalFrom(1, q, DOMAIN q \ carriers, sep)

\* C17: the material verify_hmac and verify_proxy_signature build from the
\* map they receive is the reference canonical form: the entries other than
\* the carriers (hmac and signature in the callback, signature in the proxy),
\* in byte-wise order of their keys, as key=value, joined with & in the
\* callback and with nothing in the proxy; it is the same whatever the map
\* holds under the carriers.
C17_MaterialIsCanonical ==
    call.result \notin {"pending", "none"}
        => /\ call.material
                  = Canonical(call.query_params, Carriers(call.fn), Separator(call.fn))
           /\ \A k \in Carriers(call.fn) \cap DOMAIN call.query_params :
                 call.material
                     = Canonical([x \in DOMAIN call.query_params \ {k} |->
                                     call.query_params[x]],
                                 Carriers(call.fn), Separator(call.fn))

\* the proxy verifier received Z, a, b, hmac and signature
C17_Witness ==
    /\ call.fn = "verify_proxy_signature" /\ call.result = "True"
    /\ DOMAIN call.query_params = ParamKeys
    /\ call.material
           = << "Z", "=", "1", "a", "=", "2", "b", "=", "1",
                "h", "m", "a", "c", "=", "1" >>


\* the invocation v, had its request carried the headers h
Recookie(v, h) ==
    [v EXCEPT !.event = [queryStringParameters |-> v.event.queryStringParameters,
                         headers |-> h]]

\* the steps the callback handler can take from invocation v and store s, as
\* pairs of the invocation and the store after the step
CallbackSteps(v, s) ==
    IF v.pc = "exchange"
    THEN {<<exchange_code_for_token(v, response), s>> : response \in ExchangeResponses(v.shop)}
    ELSE IF v.pc \in {"put_access_token", "put_scopes", "put_installed_at"}
    THEN {<<callback_error(Failed(v, "put"), E_ClientError), s>>,
          <<IF PutNext(v.pc) = "done" THEN callback_redirect(Sent(v, "put"))
            ELSE [Sent(v, "put") EXCEPT !.pc = PutNext(v.pc)],
            put_parameter(s, ParamName(v.shop, PutField(v.pc)), PutValue(v))>>}
    ELSE {<<Begin(callback_entry(v.event), s), s>>}

\* C18: every step of a callback invocation is the step the handler takes on
\* the same query with any other Cookie header (none, the matching state
\* cookie, another state cookie), with the same position, response, requests
\* and store; and a step of the initiator leaves store and client unchanged.
C18_StateNotVerified ==
    [][\A i \in Slots :
          /\ (Actor(i) /\ inv'[i].kind = "callback")
                => \A h \in CookieHeaders :
                      <<Recookie(inv'[i], h), store'>>
                          \in CallbackSteps(
                                 IF inv[i].pc \in {"idle", "done"}
                                 THEN Recookie([inv[i] EXCEPT !.event = inv'[i].event,
                                                              !.pc = "idle"], h)
                                 ELSE Recookie(inv[i], h),
                                 store)
          /\ (Actor(i) /\ inv'[i].kind = "auth")
                => (store' = store /\ client' = client)]_vars

\* a callback whose Cookie header holds another state than its query has
\* answered 302 and stored the credentials, after the initiator issued a cookie
C18_Witness ==
    /\ \E i \in Slots :
          /\ inv[i].kind = "callback" /\ inv[i].resp.statusCode = 302
          /\ inv[i].event.queryStringParameters[K_state] = << "0", "f" >>
          /\ inv[i].event.headers = ("Cookie" :> StateCookie(<< "f", "0" >>))
    /\ Cardinality(DOMAIN store) = 3


\* no handler invocation is in progress
Quiescent == \A i \in Slots : inv[i].pc \in {"idle", "done"}

\* each tenant holds all three of its names or none
AllOrNone ==
    \A tenant \in Tenants :
        KeysOf(tenant) \in {{}, {TenantKeyPrefix(tenant) \o f :
                                    f \in {F_access_token, F_scopes, F_installed_at}}}

NoStoreFailure == \A i \in Slots : inv[i].failed \notin {"put", "list", "delete"}

BothInstalled ==
    /\ \A i \in Slots :
          inv[i].kind = "callback" /\ inv[i].pc = "done" /\ inv[i].resp.statusCode = 302
    /\ inv[1].shop = inv[2].shop

\* C20 as stated: after two concurrent callback completions of one tenant that
\* both return 302, the access token and the scopes in the store come from the
\* same token exchange.
C20_SameExchange ==
    BothInstalled =>
        \E i \in Slots :
            /\ store[ParamName(inv[i].shop, F_access_token)] = inv[i].access_token
            /\ store[ParamName(inv[i].shop, F_scopes)] = inv[i].scope

\* C20, amended: after two concurrent callback completions of one tenant that
\* both return 302, the tenant holds its three names, and each name holds a value
\* one of the two invocations put there (the last write of that name wins): the
\* access token of one and the scopes of one, not always of the same one.
C20_LastWriteWinsPerKey ==
    BothInstalled =>
        /\ Cardinality(KeysOf(inv[1].shop)) = 3
        /\ \E i \in Slots :
              store[ParamName(inv[i].shop, F_access_token)] = inv[i].access_token
        /\ \E i \in Slots :
              store[ParamName(inv[i].shop, F_scopes)] = inv[i].scope
        /\ store[ParamName(inv[1].shop, F_installed_at)] = Now

\* the store holds the token of one exchange with the scopes of the other
C20_Witness ==
    /\ BothInstalled
    /\ inv[1].access_token # inv[2].access_token
    /\ \E i, j \in Slots :
          /\ i # j
          /\ store[ParamName(inv[i].shop, F_access_token)] = inv[i].access_token
          /\ store[ParamName(inv[i].shop, F_scopes)] = inv[j].scope
          /\ inv[i].scope # inv[j].scope


\* the map q without the parameters that carry a signature at call site fn
WithoutCarriers(fn, q) == [k \in DOMAIN q \ Carriers(fn) |-> q[k]]

\* C21 as stated: at both call sites, when the map the verifier receives
\* differs from the signed map after the signature carriers are removed, the
\* material built from it differs from the signed material and the signature
\* of the signed map is not accepted for it.
C21_CanonicalInjective ==
    (/\ call.result \notin {"pending", "none"}
     /\ WithoutCarriers(call.fn, call.query_params) # WithoutCarriers(call.fn, call.signed))
        => /\ call.material # (IF call.fn = "verify_hmac" THEN CallbackMaterial(call.signed)
                               ELSE ProxyMaterial(call.signed))
           /\ call.result = "False"

====
